---- MODULE Spec2Model ----
(***************************************************************************)
(* The command palette component (src/src/CommandPalette.vue) as a state   *)
(* machine: the component's refs, the host's two-way visibility binding    *)
(* and command list, the pending keyboard-navigation timers and the panel  *)
(* elements that exist in the document.  One action per event handler.     *)
(***************************************************************************)
EXTENDS Integers, Sequences, FiniteSets, TLC

\* ------------------------------------------------------------------ bounds
MaxLen == 3        \* longest command list the host supplies
MaxTimers == 2     \* most keyboard-navigation timers pending at once

\* ----------------------------------------------------------------- helpers
Min(a, b) == IF a < b THEN a ELSE b
Max(a, b) == IF a > b THEN a ELSE b
Range(s) == {s[i] : i \in 1..Len(s)}
SeqsUpTo(S, n) == UNION {[1..k -> S] : k \in 0..n}

\* ------------------------------------------------------- command descriptors
\* A CommandItem object.  obj is the object's identity (=== compares it),
\* category is <<>> when the optional field is absent.
Cmd(o, i, c) == [obj |-> o, id |-> i, category |-> c]

\* The command objects the host of the interactive model chooses from: two
\* categories, so that a list such as <<a, b, a>> is regrouped to <<a, a, b>>.
Objs ==
  { Cmd(1, "a", <<"File">>), Cmd(2, "b", <<"System">>) }

\* The command objects of the grouping model: as above plus a command with no
\* category, one with an empty category, categories that are canonical array
\* indices, a category naming a property every object inherits, and a second
\* object with an id already in use.
GroupObjs ==
  { Cmd(1, "a", <<"File">>), Cmd(2, "b", <<"System">>), Cmd(4, "d", <<>>),
    Cmd(5, "e", <<"">>), Cmd(6, "f", <<"2">>), Cmd(7, "g", <<"10">>),
    Cmd(8, "a", <<"constructor">>) }

\* ---------------------------------------------------------------- grouping
\* const category = command.category || 'Other'
CategoryOf(c) ==
  IF c.category = <<>> THEN "Other"
  ELSE IF c.category[1] = "" THEN "Other"
  ELSE c.category[1]

\* Property names a fresh object literal {} already answers through its
\* prototype: groups[name] is truthy before anything was stored under it.
InheritedKeys == {"constructor", "toString", "valueOf", "hasOwnProperty", "__proto__"}

\* Canonical array-index property names and their numeric values.
ArrayIndexKeys == ("2" :> 2) @@ ("10" :> 10)

\* groups[category].push(command) on an inherited, non-array value throws.
groupingThrows(cmds) ==
  \E i \in 1..Len(cmds) : CategoryOf(cmds[i]) \in InheritedKeys

\* The keys of groups in the order they were first stored.
RECURSIVE InsertionKeys(_)
InsertionKeys(cmds) ==
  IF cmds = <<>> THEN <<>>
  ELSE LET rest == InsertionKeys(SubSeq(cmds, 1, Len(cmds) - 1))
           k == CategoryOf(cmds[Len(cmds)])
       IN IF k \in Range(rest) THEN rest ELSE Append(rest, k)

\* A set of array-index keys in ascending numeric order.
RECURSIVE AscendingIndexKeys(_)
AscendingIndexKeys(S) ==
  IF S = {} THEN <<>>
  ELSE LET k == CHOOSE x \in S : \A y \in S : ArrayIndexKeys[x] <= ArrayIndexKeys[y]
       IN <<k>> \o AscendingIndexKeys(S \ {k})

\* Object.keys(groups) and v-for over groups: array-index keys first, in
\* ascending numeric order, then the other string keys in insertion order.
OwnKeys(cmds) ==
  LET ins == InsertionKeys(cmds)
      idx == {k \in Range(ins) : k \in DOMAIN ArrayIndexKeys}
  IN AscendingIndexKeys(idx) \o SelectSeq(ins, LAMBDA k : k \notin DOMAIN ArrayIndexKeys)

\* groups[category]: the commands of one category, in input order.
GroupOf(cmds, cat) == SelectSeq(cmds, LAMBDA c : CategoryOf(c) = cat)

\* groupedCommands: the groups in key-enumeration order.
groupedCommands(cmds) ==
  [i \in 1..Len(OwnKeys(cmds)) |->
      [category |-> OwnKeys(cmds)[i], commands |-> GroupOf(cmds, OwnKeys(cmds)[i])]]

RECURSIVE Concat(_)
Concat(groups) ==
  IF groups = <<>> THEN <<>>
  ELSE groups[1].commands \o Concat(Tail(groups))

\* flattenedCommands: the groups' commands concatenated in key order.
flattenedCommands(cmds) == Concat(groupedCommands(cmds))

\* Array.prototype.indexOf: 0-based position of the first element identical
\* to x, or -1.
indexOf(s, x) ==
  IF \E i \in 1..Len(s) : s[i] = x
  THEN (CHOOSE i \in 1..Len(s) : s[i] = x /\ \A j \in 1..(i - 1) : s[j] /= x) - 1
  ELSE -1

\* s[i] for a 0-based i is defined (not undefined).
HasIndex(s, i) == 0 <= i /\ i < Len(s)
At(s, i) == s[i + 1]

\* ------------------------------------------------------------------- state
VARIABLES
  commands,              \* props.commands, owned by the host
  visible,               \* defineModel<boolean>(): the two-way visibility binding
  searchQuery,           \* ref('')
  selectedIndex,         \* ref(0)
  isKeyboardNavigation,  \* ref(false)
  timers,                \* pending setTimeout callbacks that clear isKeyboardNavigation
  focused,               \* the keyboard focus is inside the panel
  leaving,               \* visible is false, the panel's elements are still in the
                         \* document (leave transition running)
  rendered,              \* the command objects the panel's items were rendered for
  mounted,               \* the component instance exists
  listeners,             \* document-level keydown listeners attached by the component
  lastEvent,             \* history: the event handled last
  invoked,               \* history: the commands whose action the last event called
  scrolled,              \* history: the indices the last event scrolled into view
  visHist,               \* history: visible before each event of the current run of
                         \* consecutive events of one kind (the last two of them)
  hovered,               \* history: the command of the item the last event hovered
  pressFresh             \* history: an arrow key was handled while open, and since
                         \* then no clear timer ran and neither closePanel nor
                         \* openPanel was called

progVars == <<visible, searchQuery, selectedIndex, isKeyboardNavigation>>
vars == <<commands, visible, searchQuery, selectedIndex, isKeyboardNavigation,
          timers, focused, leaving, rendered, mounted, listeners,
          lastEvent, invoked, scrolled, visHist, hovered, pressFresh>>

\* What the host's command lists, the query field and a command's action can be.
HostLists == SeqsUpTo(Objs, MaxLen)
GroupLists == SeqsUpTo(GroupObjs, MaxLen)
Queries == {"", "k"}
ArrowKeys == {"ArrowDown", "ArrowUp"}
\* The events that run a clear timer, closePanel or openPanel, or start a fresh
\* instance.
ResetEvents == {"timer", "hotkey", "overlay", "openPanel", "closePanel",
                "mount", "unmount"}

\* A command's action either leaves the binding alone or, as the playground's
\* actions do, sets it to false.
ActionBehaviours == {"none", "hide"}

panelInDom == mounted /\ (visible \/ leaving)

\* The render pass that follows every handler: the panel exists while visible,
\* stays (unpatched) while its leave transition runs.
Dom ==
  /\ leaving' = (mounted /\ ~visible' /\ (visible \/ leaving))
  /\ rendered' = IF mounted /\ visible' THEN Range(commands')
                 ELSE IF leaving' THEN rendered
                 ELSE {}

\* The history variables after event ev, which called the actions of inv and
\* scrolled the elements of scr into view.
History(ev, inv, scr) ==
  /\ hovered' = <<>>
  /\ lastEvent' = ev
  /\ invoked' = inv
  /\ scrolled' = scr
  /\ visHist' = IF ev = lastEvent /\ visHist /= <<>>
                THEN <<visHist[Len(visHist)], visible>>
                ELSE <<visible>>
  /\ pressFresh' = CASE ev \in ArrowKeys /\ visible -> TRUE
                      [] ev = "Escape" /\ visible -> FALSE
                      [] ev \in ResetEvents -> FALSE
                      [] OTHER -> pressFresh

Init ==
  /\ commands \in HostLists
  /\ visible = FALSE
  /\ searchQuery = ""
  /\ selectedIndex = 0
  /\ isKeyboardNavigation = FALSE
  /\ timers = 0
  /\ focused = FALSE
  /\ leaving = FALSE
  /\ rendered = {}
  /\ mounted = TRUE
  /\ listeners = 1
  /\ lastEvent = "mount"
  /\ invoked = <<>>
  /\ scrolled = <<>>
  /\ visHist = <<>>
  /\ hovered = <<>>
  /\ pressFresh = FALSE

\* ------------------------------------------------------ component functions
\* A faulty closePanel that forgets to reset the query.
closePanelKeepsQuery ==
  /\ visible' = FALSE
  /\ searchQuery' = searchQuery
  /\ selectedIndex' = 0
  /\ isKeyboardNavigation' = FALSE

closePanel ==
  /\ visible' = FALSE
  /\ searchQuery' = ""
  /\ selectedIndex' = 0
  /\ isKeyboardNavigation' = FALSE

\* The nextTick callback runs after the render pass, when the input exists.
openPanel ==
  /\ visible' = TRUE
  /\ selectedIndex' = 0
  /\ searchQuery' = ""
  /\ isKeyboardNavigation' = FALSE
  /\ focused' = TRUE

\* What a command's action does to the binding (the host's code).
RunAction(beh) ==
  visible' = IF beh = "hide" THEN FALSE ELSE visible

\* executeCommand: command.action(), and nothing else.
executeCommand(command, beh) ==
  /\ RunAction(beh)
  /\ UNCHANGED <<searchQuery, selectedIndex, isKeyboardNavigation>>

ArrowDownIndex(i, n) == Min(i + 1, n - 1)
ArrowUpIndex(i) == Max(i - 1, 0)

\* scrollToSelectedCommand: after the render pass, the element whose
\* data-command-index is the selected index, when there is one.
ScrollTargets(i, cmds) ==
  LET flat == flattenedCommands(cmds)
  IN IF \E p \in 1..Len(flat) : indexOf(flat, flat[p]) = i THEN <<i>> ELSE <<>>

\* A faulty handleMouseEnter that does not look at isKeyboardNavigation.
handleMouseEnterAlways(command) ==
  selectedIndex' = indexOf(flattenedCommands(commands), command)

\* handleMouseEnter
handleMouseEnter(command) ==
  IF isKeyboardNavigation
  THEN UNCHANGED selectedIndex
  ELSE selectedIndex' = indexOf(flattenedCommands(commands), command)

\* A faulty handleKeydown guard: the early return is missing.
keydownIgnoredNever == FALSE

\* if (!visible.value) return
keydownIgnored == ~visible

\* A faulty hotkey test: the handler only ever opens.
hotkeyClosesNever == FALSE

\* if (visible.value) closePanel() else openPanel()
hotkeyCloses == visible

\* A faulty arrow-key branch that does not raise isKeyboardNavigation.
startKeyboardNavigationNot == isKeyboardNavigation' = isKeyboardNavigation

\* isKeyboardNavigation.value = true
startKeyboardNavigation == isKeyboardNavigation' = TRUE

\* A faulty arrow-key branch that schedules no clear timer.
scheduleClearNever == timers' = timers

\* setTimeout(() => { isKeyboardNavigation.value = false }, 100)
scheduleClear == timers' = timers + 1

\* handleKeydown, one key
handleKeydown(key, beh) ==
  LET flat == flattenedCommands(commands) IN
  IF keydownIgnored
  THEN /\ UNCHANGED <<progVars, timers>>
       /\ History(key, <<>>, <<>>)
  ELSE CASE key = "Escape" ->
              /\ closePanel
              /\ UNCHANGED timers
              /\ History(key, <<>>, <<>>)
         [] key = "ArrowDown" ->
              /\ timers < MaxTimers
              /\ startKeyboardNavigation
              /\ selectedIndex' = ArrowDownIndex(selectedIndex, Len(flat))
              /\ scheduleClear
              /\ UNCHANGED <<visible, searchQuery>>
              /\ History(key, <<>>, ScrollTargets(selectedIndex', commands))
         [] key = "ArrowUp" ->
              /\ timers < MaxTimers
              /\ startKeyboardNavigation
              /\ selectedIndex' = ArrowUpIndex(selectedIndex)
              /\ scheduleClear
              /\ UNCHANGED <<visible, searchQuery>>
              /\ History(key, <<>>, ScrollTargets(selectedIndex', commands))
         [] key = "Enter" ->
              /\ UNCHANGED timers
              /\ IF HasIndex(flat, selectedIndex)
                 THEN /\ executeCommand(At(flat, selectedIndex), beh)
                      /\ History(key, <<At(flat, selectedIndex)>>, <<>>)
                 ELSE /\ UNCHANGED progVars
                      /\ History(key, <<>>, <<>>)

\* handleGlobalKeydown for meta+k / ctrl+k
handleGlobalKeydown ==
  /\ IF hotkeyCloses
     THEN closePanel /\ UNCHANGED focused
     ELSE openPanel
  /\ History("hotkey", <<>>, <<>>)

\* ------------------------------------------------------------------ events
\* meta+k or ctrl+k anywhere in the document: every attached listener runs.
GlobalHotkey ==
  /\ listeners > 0
  /\ handleGlobalKeydown
  /\ UNCHANGED <<commands, timers, mounted, listeners>>
  /\ Dom

\* A key pressed while the focus is inside the panel (@keydown on the panel).
KeyInPanel(key, beh) ==
  /\ mounted /\ focused
  /\ handleKeydown(key, beh)
  /\ UNCHANGED <<commands, focused, mounted, listeners>>
  /\ Dom

KeyEscape == KeyInPanel("Escape", "none")
KeyArrowDown == KeyInPanel("ArrowDown", "none")
KeyArrowUp == KeyInPanel("ArrowUp", "none")
KeyEnter == \E beh \in ActionBehaviours : KeyInPanel("Enter", beh)

\* @click on a command item of the panel.
ClickCommand ==
  /\ panelInDom
  /\ \E command \in rendered, beh \in ActionBehaviours :
        /\ executeCommand(command, beh)
        /\ History("click", <<command>>, <<>>)
  /\ UNCHANGED <<commands, timers, focused, mounted, listeners>>
  /\ Dom

\* @mouseenter on a command item of the panel.
MouseEnter ==
  /\ panelInDom
  /\ \E command \in rendered :
        /\ handleMouseEnter(command)
        /\ hovered' = <<command>>
  /\ lastEvent' = "hover"
  /\ invoked' = <<>>
  /\ scrolled' = <<>>
  /\ visHist' = IF lastEvent = "hover" /\ visHist /= <<>>
                THEN <<visHist[Len(visHist)], visible>>
                ELSE <<visible>>
  /\ UNCHANGED <<commands, visible, searchQuery, isKeyboardNavigation, timers,
                 focused, mounted, listeners, pressFresh>>
  /\ Dom

\* @click on the overlay.
ClickOverlay ==
  /\ panelInDom
  /\ closePanel
  /\ History("overlay", <<>>, <<>>)
  /\ UNCHANGED <<commands, timers, focused, mounted, listeners>>
  /\ Dom

\* A faulty watcher that keeps the selection where it was.
watchSearchQueryKeepsIndex == selectedIndex' = selectedIndex

\* watch(searchQuery, () => { selectedIndex.value = 0 })
watchSearchQuery == selectedIndex' = 0

\* v-model on the search input, then watch(searchQuery).
EditQuery ==
  /\ mounted /\ focused
  /\ \E q \in Queries \ {searchQuery} : searchQuery' = q
  /\ watchSearchQuery
  /\ History("input", <<>>, <<>>)
  /\ UNCHANGED <<commands, visible, isKeyboardNavigation, timers, focused,
                 mounted, listeners>>
  /\ Dom

\* A setTimeout(..., 100) callback of an arrow key runs.
TimerFire ==
  /\ timers > 0
  /\ timers' = timers - 1
  /\ isKeyboardNavigation' = FALSE
  /\ History("timer", <<>>, <<>>)
  /\ UNCHANGED <<commands, visible, searchQuery, selectedIndex, focused,
                 mounted, listeners>>
  /\ Dom

\* The exposed openPanel() and closePanel(), called by the host.
HostOpenPanel ==
  /\ mounted
  /\ openPanel
  /\ History("openPanel", <<>>, <<>>)
  /\ UNCHANGED <<commands, timers, mounted, listeners>>
  /\ Dom

HostClosePanel ==
  /\ mounted
  /\ closePanel
  /\ History("closePanel", <<>>, <<>>)
  /\ UNCHANGED <<commands, timers, focused, mounted, listeners>>
  /\ Dom

\* The host writes the two-way binding (the playground's toggleCommandPalette).
\* Nothing in the component reacts to the write: no reset and no focus call.
\* A panel shown again during its leave transition is a new element, so a focus
\* held by the old one is lost.
HostSetVisible ==
  /\ visible' = ~visible
  /\ focused' = IF leaving /\ visible' THEN FALSE ELSE focused
  /\ History("hostVisible", <<>>, <<>>)
  /\ UNCHANGED <<commands, searchQuery, selectedIndex, isKeyboardNavigation,
                 timers, mounted, listeners>>
  /\ Dom

\* The host passes another command list.
SetCommands(list) ==
  /\ list /= commands
  /\ commands' = list
  /\ History("hostCommands", <<>>, <<>>)
  /\ UNCHANGED <<progVars, timers, focused, mounted, listeners>>
  /\ Dom

HostSetCommands == \E list \in HostLists : SetCommands(list)

\* The leave transition ends: the panel's elements are removed.
LeaveEnd ==
  /\ leaving
  /\ leaving' = FALSE
  /\ rendered' = {}
  /\ focused' = FALSE
  /\ History("leaveEnd", <<>>, <<>>)
  /\ UNCHANGED <<commands, progVars, timers, mounted, listeners>>

\* The user clicks into the search input, or outside the panel's focusable parts.
FocusInput ==
  /\ panelInDom /\ ~focused
  /\ focused' = TRUE
  /\ History("focus", <<>>, <<>>)
  /\ UNCHANGED <<commands, progVars, timers, leaving, rendered, mounted, listeners>>

Blur ==
  /\ focused
  /\ focused' = FALSE
  /\ History("blur", <<>>, <<>>)
  /\ UNCHANGED <<commands, progVars, timers, leaving, rendered, mounted, listeners>>

\* onMounted of a fresh instance / onBeforeUnmount.
onMounted == listeners' = listeners + 1

\* A faulty onBeforeUnmount that leaves the listener attached.
onBeforeUnmountKeepsListener == listeners' = listeners

onBeforeUnmount == listeners' = listeners - 1

FreshInstance ==
  /\ searchQuery' = ""
  /\ selectedIndex' = 0
  /\ isKeyboardNavigation' = FALSE
  /\ timers' = 0
  /\ focused' = FALSE
  /\ leaving' = FALSE

Mount ==
  /\ ~mounted
  /\ mounted' = TRUE
  /\ onMounted
  /\ FreshInstance
  /\ rendered' = IF visible THEN Range(commands) ELSE {}
  /\ History("mount", <<>>, <<>>)
  /\ UNCHANGED <<commands, visible>>

Unmount ==
  /\ mounted
  /\ mounted' = FALSE
  /\ onBeforeUnmount
  /\ FreshInstance
  /\ rendered' = {}
  /\ History("unmount", <<>>, <<>>)
  /\ UNCHANGED <<commands, visible>>

Next ==
  \/ GlobalHotkey
  \/ KeyEscape
  \/ KeyArrowDown
  \/ KeyArrowUp
  \/ KeyEnter
  \/ ClickCommand
  \/ MouseEnter
  \/ ClickOverlay
  \/ EditQuery
  \/ TimerFire
  \/ HostOpenPanel
  \/ HostClosePanel
  \/ HostSetVisible
  \/ HostSetCommands
  \/ LeaveEnd
  \/ FocusInput
  \/ Blur
  \/ Mount
  \/ Unmount

Spec == Init /\ [][Next]_vars

\* The event loop runs every pending setTimeout callback.
SpecLive == Spec /\ WF_vars(TimerFire)

\* ------------------------------------------------- the grouping on its own
\* The computed groupedCommands / flattenedCommands of every command list the
\* host can pass, before any instance is mounted.
InitGroup ==
  /\ commands \in GroupLists
  /\ visible = FALSE
  /\ searchQuery = ""
  /\ selectedIndex = 0
  /\ isKeyboardNavigation = FALSE
  /\ timers = 0
  /\ focused = FALSE
  /\ leaving = FALSE
  /\ rendered = {}
  /\ mounted = FALSE
  /\ listeners = 0
  /\ lastEvent = "hostCommands"
  /\ invoked = <<>>
  /\ scrolled = <<>>
  /\ visHist = <<>>
  /\ hovered = <<>>
  /\ pressFresh = FALSE

NextGroup == \E list \in GroupLists : SetCommands(list)

SpecGroup == InitGroup /\ [][NextGroup]_vars

\* ================================================================== claims
flat == flattenedCommands(commands)
count == Len(flat)
Abs(x) == IF x < 0 THEN -x ELSE x

\* C1: executing a command (Enter on the selected item, or a click on an item)
\* calls its action and then always leaves the panel Closed with an empty query
\* and selectedIndex 0, whatever the action does.
C1_ExecuteLeavesClosedAndReset ==
  (lastEvent \in {"Enter", "click"} /\ invoked /= <<>>)
    => (~visible /\ searchQuery = "" /\ selectedIndex = 0)

\* C2: with a non-empty command list, every transition from Closed to Open (by
\* the hotkey, by openPanel(), or by the host writing the binding) ends with
\* selectedIndex 0 and an empty query.
C2_OpenResets ==
  [][(~visible /\ visible' /\ commands' /= <<>>)
       => (selectedIndex' = 0 /\ searchQuery' = "")]_vars

\* C3: whenever the flattened list is non-empty, selectedIndex is one of its
\* indices, also after the host replaced the command list.
C3_IndexValid ==
  (mounted /\ count > 0) => (0 <= selectedIndex /\ selectedIndex <= count - 1)

\* C4: with an empty command list and the panel Open, ArrowUp, ArrowDown and
\* Enter leave selectedIndex unchanged (at 0) and call no action.
C4_EmptyListKeysDoNothing ==
  [][(visible /\ commands = <<>> /\ lastEvent' \in {"ArrowUp", "ArrowDown", "Enter"})
       => (selectedIndex' = selectedIndex /\ selectedIndex' = 0 /\ invoked' = <<>>)]_vars

\* C5: Enter while Open with a non-empty list calls exactly one action, once:
\* that of the command at selectedIndex in the flattened list.
C5_EnterRunsSelected ==
  [][(visible /\ commands /= <<>> /\ lastEvent' = "Enter")
       => (HasIndex(flat, selectedIndex) /\ invoked' = <<At(flat, selectedIndex)>>)]_vars

\* C6: every ArrowDown press while Open moves selectedIndex to
\* min(i+1, count-1), never above count-1; every ArrowUp press to max(i-1, 0),
\* never below 0; and each press changes selectedIndex by at most 1.
C6_ArrowsClampAndStep ==
  [][(visible /\ lastEvent' \in {"ArrowDown", "ArrowUp"})
       => /\ lastEvent' = "ArrowDown"
               => (selectedIndex' = Min(selectedIndex + 1, count - 1)
                   /\ selectedIndex' <= count - 1)
          /\ lastEvent' = "ArrowUp"
               => (selectedIndex' = Max(selectedIndex - 1, 0) /\ selectedIndex' >= 0)
          /\ Abs(selectedIndex' - selectedIndex) <= 1]_vars

\* The order C7 asks for: categories in the order of their first occurrence in
\* the input, the commands of each category in input order.
RECURSIVE ConcatCategories(_, _)
ConcatCategories(cmds, cats) ==
  IF cats = <<>> THEN <<>>
  ELSE SelectSeq(cmds, LAMBDA c : CategoryOf(c) = cats[1])
         \o ConcatCategories(cmds, Tail(cats))

FirstSeenOrder(cmds) == ConcatCategories(cmds, InsertionKeys(cmds))

\* C7: for every input list and every category name, the flattened list is the
\* input regrouped with the categories in first-occurrence order and the
\* commands of each category in input order.
C7_GroupingKeepsFirstSeenOrder ==
  /\ ~groupingThrows(commands)
  /\ flattenedCommands(commands) = FirstSeenOrder(commands)

\* visible just before the last event.
wasVisible == visHist /= <<>> /\ visHist[Len(visHist)]

\* C8: Escape while Open closes the panel; Escape while already Closed changes
\* none of visible, query, selectedIndex, isKeyboardNavigation, so a second
\* Escape in a row ends in the state the first one reached.
C8_EscapeClosesIdempotent ==
  [][lastEvent' = "Escape"
       => (~visible' /\ (~visible => UNCHANGED progVars))]_vars

\* Two Escape presses in a row, the first while Open, the second while Closed.
C8_Witness ==
  lastEvent = "Escape" /\ visHist = <<TRUE, FALSE>> /\ ~visible

\* C9: two hotkey presses in a row, with no event in between, return visible to
\* its value before the first press.
C9_HotkeyTwiceRestores ==
  (lastEvent = "hotkey" /\ Len(visHist) = 2) => visible = visHist[1]

\* Open -> Closed -> Open by two hotkey presses in a row.
C9_Witness ==
  lastEvent = "hotkey" /\ visHist = <<TRUE, FALSE>> /\ visible

\* C10: a transition from Open to Closed by Escape, an overlay click,
\* closePanel() or the hotkey leaves an empty query, selectedIndex 0 and
\* isKeyboardNavigation false.
C10_CloseResets ==
  [][(visible /\ ~visible'
        /\ lastEvent' \in {"Escape", "overlay", "closePanel", "hotkey"})
       => (searchQuery' = "" /\ selectedIndex' = 0 /\ ~isKeyboardNavigation')]_vars

\* The panel was Open, was closed by one of the four triggers right after an
\* arrow key moved the selection (its timer is still pending), and is reset.
C10_Witness ==
  /\ lastEvent \in {"Escape", "overlay", "closePanel", "hotkey"}
  /\ wasVisible /\ ~visible
  /\ timers > 0
  /\ searchQuery = "" /\ selectedIndex = 0 /\ ~isKeyboardNavigation
\* C11: after any sequence of mount and unmount cycles exactly one document
\* keydown listener is attached while the component is mounted and none while
\* it is unmounted, and then the hotkey reaches no handler.
C11_ListenersSymmetric ==
  /\ listeners = (IF mounted THEN 1 ELSE 0)
  /\ ~mounted => ~ENABLED GlobalHotkey

\* The component was unmounted and mounted again.
C11_Witness ==
  lastEvent = "mount" /\ visHist /= <<>> /\ mounted /\ listeners = 1
\* The command items of the open panel in display order (the nested v-for over
\* groupedCommands), each with its data-command-index and its selected class.
ItemIndex(p) == indexOf(flat, flat[p])
SelectedItems == {p \in 1..count : selectedIndex = ItemIndex(p)}

\* C12: in every Open state with 0 <= selectedIndex < count exactly one
\* displayed item is marked selected: the item at display position
\* selectedIndex, whose data-command-index is selectedIndex and whose command
\* is the one Enter would execute; also when a command object occurs twice.
C12_OneItemSelected ==
  (mounted /\ visible /\ HasIndex(flat, selectedIndex))
    => /\ SelectedItems = {selectedIndex + 1}
       /\ ItemIndex(selectedIndex + 1) = selectedIndex
\* C13: a hover over a displayed command (one of the current list) sets
\* selectedIndex to a position of that command in the flattened list when
\* isKeyboardNavigation is false and leaves it unchanged when it is true; it
\* changes none of visible, query, isKeyboardNavigation and calls no action.
C13_HoverSelects ==
  [][(lastEvent' = "hover" /\ hovered'[1] \in Range(flat))
       => /\ ~isKeyboardNavigation
               => (HasIndex(flat, selectedIndex')
                   /\ At(flat, selectedIndex') = hovered'[1])
          /\ isKeyboardNavigation => selectedIndex' = selectedIndex
          /\ UNCHANGED <<visible, searchQuery, isKeyboardNavigation>>
          /\ invoked' = <<>>]_vars

\* A hover moved the selection to a later item of the open panel.
C13_Witness ==
  /\ lastEvent = "hover" /\ visible /\ ~isKeyboardNavigation
  /\ selectedIndex > 0
  /\ HasIndex(flat, selectedIndex) /\ At(flat, selectedIndex) = hovered[1]
\* C14 as stated: a hover that comes after an arrow press and before the clear
\* timer of that press has run (timers run in the order they were scheduled, so
\* the timer of the latest press is pending exactly when any timer is) leaves
\* selectedIndex unchanged.
C14_HoverInsideTimerWindow ==
  [][(lastEvent' = "hover" /\ timers > 0) => selectedIndex' = selectedIndex]_vars

\* C14, amended: a hover that comes after an arrow press handled while open,
\* before any clear timer has run and before any closePanel or openPanel call
\* since that press, leaves selectedIndex unchanged.
C14_HoverAfterFreshPress ==
  [][(lastEvent' = "hover" /\ pressFresh) => selectedIndex' = selectedIndex]_vars

\* A hover over an item other than the selected one was suppressed right after
\* an arrow press.
C14_Witness ==
  /\ lastEvent = "hover" /\ pressFresh /\ visible /\ timers > 0
  /\ hovered /= <<>> /\ hovered[1] \in Range(flat)
  /\ indexOf(flat, hovered[1]) /= selectedIndex
\* C15: every step from Closed to Open of a mounted component (hotkey,
\* openPanel(), or the host writing the binding) ends with the focus inside the
\* rendered panel, so that keys reach handleKeydown.
C15_OpenFocuses ==
  [][(mounted /\ ~visible /\ visible') => focused']_vars
\* C16: each ArrowUp/ArrowDown press handled while open (here: with at least
\* one command to select) requests exactly one scroll into view, and its target
\* is the element whose index is the selectedIndex that press produced.
C16_ArrowScrollsToSelected ==
  [][(visible /\ count > 0 /\ lastEvent' \in ArrowKeys)
       => scrolled' = <<selectedIndex'>>]_vars
\* C17: an edit of the query text ends with selectedIndex = 0 and changes
\* nothing but the query and the index: the grouped and flattened lists, the
\* commands displayed and their indices, and visible are what they were.
C17_EditChangesQueryAndIndexOnly ==
  [][lastEvent' = "input"
       => /\ searchQuery' /= searchQuery
          /\ selectedIndex' = 0
          /\ groupedCommands(commands') = groupedCommands(commands)
          /\ flattenedCommands(commands') = flattenedCommands(commands)
          /\ rendered' = rendered
          /\ UNCHANGED <<visible, isKeyboardNavigation, timers, focused, leaving>>
          /\ invoked' = <<>>]_vars

\* The query of an open panel with several commands was edited during a
\* keyboard navigation.
C17_Witness ==
  /\ lastEvent = "input" /\ searchQuery /= "" /\ visible /\ count >= 2
  /\ isKeyboardNavigation /\ selectedIndex = 0 /\ rendered = Range(commands)
\* C18: whenever isKeyboardNavigation is true a clear timer is pending, and,
\* every pending timer being run eventually, isKeyboardNavigation becomes false
\* again.
C18_FlagClearedEventually ==
  /\ [](isKeyboardNavigation => timers > 0)
  /\ isKeyboardNavigation ~> ~isKeyboardNavigation

\* The last pending timer cleared the flag after a key-driven move.
C18_Witness ==
  /\ lastEvent = "timer" /\ ~isKeyboardNavigation /\ timers = 0
  /\ visible /\ selectedIndex > 0
\* C19: no command action is called while visible is false: an event that
\* called an action found the panel open.
C19_NoActionWhileClosed ==
  invoked /= <<>> => wasVisible
====
